---- MODULE Spec2Model ----
(***************************************************************************)
(* Model of src/src/lib.rs: the Renderer of imgui-skia-renderer.           *)
(*                                                                         *)
(* The Renderer owns a map from texture id to paint (images) and a counter *)
(* (img_idx).  render_imgui walks the draw lists of one frame and issues   *)
(* draw_vertices calls on a canvas.  The code has no typed errors: a       *)
(* failure is a Rust panic.  The model names each panic after the place    *)
(* that raises it:                                                         *)
(*   "UnknownHandle"          HashMap index of a missing key   (line 145)  *)
(*   "IndexRangeOutOfBounds"  slice idx[off .. off + count]    (line 152)  *)
(*   "UnsupportedCommand"     todo!()                    (lines 134, 137)  *)
(* A panic unwinds: locals are dropped (the AutoCanvasRestore guard        *)
(* restores the canvas), the rest of the function is skipped.              *)
(***************************************************************************)
EXTENDS Integers, Sequences, FiniteSets, TLC

VARIABLES
    images,           \* Renderer.images : HashMap<usize, Paint>
    img_idx,          \* Renderer.img_idx : usize
    overflow_checks,  \* build profile: TRUE = debug (usize + panics on overflow)
    last,             \* the most recent call on the Renderer: its name, the texture
                      \* id it was given (register_image: the id it returned) and
                      \* whether the map held that id when the call was made
    issued,           \* history: handles returned by register_image since new()
    released,         \* history: handles passed to release_image
    entry,            \* the canvas as the caller passed it to the last render_imgui
    canvas,           \* the canvas as the last render_imgui left it
    data,             \* the DrawData of the last render_imgui
    outcome           \* "none" | "pending" | "ok" | the panic of the last render_imgui

vars == <<images, img_idx, overflow_checks, last, issued, released,
          entry, canvas, data, outcome>>

(***************************************************************************)
(* Bounds                                                                  *)
(***************************************************************************)
\* largest texture id the application passes to update/release, and the
\* largest handle register_image is let to hand out
MaxHandle == 2
\* most draw commands in one frame of SpecFrame (over all its draw lists)
MaxCmds == 2
\* width of usize in bits, scaled down from 64
UsizeBits == 3

USIZE_MOD == 2 ^ UsizeBits
USIZE_MAX == USIZE_MOD - 1

Handles == 0 .. MaxHandle
\* texture ids the frames of SpecFrame refer to
TexIds == {0, 1}
\* saves already on the canvas when the caller passes it in
EntryDepths == {0, 2}
\* paints the application registers; FontPaint is the one new() builds
Paints == {"p1", "p2"}
FontPaint == "font"

(***************************************************************************)
(* Texture registry                                                        *)
(***************************************************************************)
\* HashMap::insert(k, v)
MapInsert(m, k, v) == [x \in (DOMAIN m) \cup {k} |-> IF x = k THEN v ELSE m[x]]

\* HashMap::remove(k)
MapRemove(m, k) == [x \in (DOMAIN m) \ {k} |-> m[x]]

EmptyMap == [x \in {} |-> FontPaint]

\* self.images[&id]: Index on a HashMap panics when the key is missing
lookup(imgs, id) ==
    IF id \in DOMAIN imgs
    THEN [panic |-> "none", paint |-> imgs[id]]
    ELSE [panic |-> "UnknownHandle", paint |-> "none"]

\* Renderer::new: empty map, counter 0, then register_image(font_paint)
Init ==
    /\ images = MapInsert(EmptyMap, 0, FontPaint)
    /\ img_idx = 1
    /\ overflow_checks \in BOOLEAN
    /\ last = [op |-> "new", id |-> 0, hit |-> FALSE]
    /\ issued = <<>>
    /\ released = {}
    /\ entry = [stack |-> <<>>, cur |-> [matrix |-> "caller", clip |-> <<>>], draws |-> <<>>]
    /\ canvas = entry
    /\ data = <<>>
    /\ outcome = "none"

FrameUnchanged == UNCHANGED <<entry, canvas, data, outcome>>

\* a plausible slip: hand out the smallest id that is free in the map
register_image_reuse(paint) ==
    LET free == CHOOSE h \in 0 .. MaxHandle + 1 :
                    /\ h \notin DOMAIN images
                    /\ \A k \in 0 .. MaxHandle + 1 : k \notin DOMAIN images => h <= k
    IN  /\ img_idx <= MaxHandle
        /\ \E h \in 0 .. MaxHandle + 1 : h \notin DOMAIN images
        /\ images' = MapInsert(images, free, paint)
        /\ img_idx' = img_idx + 1
        /\ last' = [op |-> "register", id |-> free, hit |-> FALSE]
        /\ issued' = Append(issued, free)
        /\ UNCHANGED <<overflow_checks, released>>
        /\ FrameUnchanged

\* Renderer::register_image.  The counter is capped at MaxHandle + 1.
register_image(paint) ==
    /\ img_idx <= MaxHandle
    /\ images' = MapInsert(images, img_idx, paint)
    /\ img_idx' = img_idx + 1
    /\ last' = [op |-> "register", id |-> img_idx' - 1, hit |-> img_idx \in DOMAIN images]
    /\ issued' = Append(issued, img_idx' - 1)
    /\ UNCHANGED <<overflow_checks, released>>
    /\ FrameUnchanged

\* Renderer::update_image: HashMap::insert, whether or not the key exists
update_image(texid, paint) ==
    /\ images' = MapInsert(images, texid, paint)
    /\ last' = [op |-> "update", id |-> texid, hit |-> texid \in DOMAIN images]
    /\ UNCHANGED <<img_idx, overflow_checks, issued, released>>
    /\ FrameUnchanged

\* a plausible slip: the font atlas at id 0 is never removed
release_image_keep_atlas(texid) ==
    /\ images' = IF texid = 0 THEN images ELSE MapRemove(images, texid)
    /\ last' = [op |-> "release", id |-> texid, hit |-> texid \in DOMAIN images]
    /\ released' = released \cup {texid}
    /\ UNCHANGED <<img_idx, overflow_checks, issued>>
    /\ FrameUnchanged

\* Renderer::release_image: HashMap::remove
release_image(texid) ==
    /\ images' = MapRemove(images, texid)
    /\ last' = [op |-> "release", id |-> texid, hit |-> texid \in DOMAIN images]
    /\ released' = released \cup {texid}
    /\ UNCHANGED <<img_idx, overflow_checks, issued>>
    /\ FrameUnchanged

(***************************************************************************)
(* Canvas (skia_safe::Canvas, as far as render_imgui uses it)              *)
(***************************************************************************)
\* Canvas::save: push the current matrix and clip
canvas_save(c) == [c EXCEPT !.stack = Append(c.stack, c.cur)]

\* Canvas::restore: pop; nothing happens on an empty stack
canvas_restore(c) ==
    IF c.stack = <<>> THEN c
    ELSE [c EXCEPT !.cur = c.stack[Len(c.stack)],
                   !.stack = SubSeq(c.stack, 1, Len(c.stack) - 1)]

\* Canvas::set_matrix
canvas_set_matrix(c, m) == [c EXCEPT !.cur.matrix = m]

\* Canvas::clip_rect(rect, ClipOp::Intersect, anti-alias)
canvas_clip_rect(c, rect) == [c EXCEPT !.cur.clip = Append(c.cur.clip, rect)]

\* Canvas::draw_vertices(vertices, BlendMode::Modulate, paint)
canvas_draw_vertices(c, vertices, paint) ==
    [c EXCEPT !.draws = Append(c.draws,
        [vertices |-> vertices, blend |-> "Modulate", paint |-> paint,
         clip |-> c.cur.clip, matrix |-> c.cur.matrix])]

(***************************************************************************)
(* Draw list translation                                                   *)
(***************************************************************************)
\* skia_safe::Point { x: v[0], y: v[1] }
Point(v) == [x |-> v[1], y |-> v[2]]

\* skia_safe::Color::from_argb(a, r, g, b)
from_argb(a, r, g, b) == [a |-> a, r |-> r, g |-> g, b |-> b]

\* lines 103-120: the three per-vertex arrays of a draw list
vertex_arrays(vtx_buffer) ==
    [pos   |-> [i \in 1 .. Len(vtx_buffer) |-> Point(vtx_buffer[i].pos)],
     uv    |-> [i \in 1 .. Len(vtx_buffer) |-> Point(vtx_buffer[i].uv)],
     color |-> [i \in 1 .. Len(vtx_buffer) |->
                    from_argb(vtx_buffer[i].col[4], vtx_buffer[i].col[1],
                              vtx_buffer[i].col[2], vtx_buffer[i].col[3])]]

\* lines 123-125: the index buffer is copied element by element
index_array(idx_buffer) == [i \in 1 .. Len(idx_buffer) |-> idx_buffer[i]]

\* a plausible slip: only the end of the range is compared with the length
idx_slice_end_only(idx, idx_offset, count, checks) ==
    LET end == (idx_offset + count) % USIZE_MOD
    IN  IF end > Len(idx)
        THEN [panic |-> "IndexRangeOutOfBounds", slice |-> <<>>]
        ELSE [panic |-> "none", slice |-> SubSeq(idx, idx_offset + 1, end)]

\* a plausible slip: the slice starts one element late
idx_slice_late(idx, idx_offset, count, checks) ==
    LET sum == idx_offset + count
        end == sum % USIZE_MOD
    IN  IF (checks /\ sum >= USIZE_MOD) \/ idx_offset > end \/ end > Len(idx)
        THEN [panic |-> "IndexRangeOutOfBounds", slice |-> <<>>]
        ELSE [panic |-> "none", slice |-> SubSeq(idx, idx_offset + 2, end)]

\* line 152: &idx[idx_offset .. idx_offset + count].  The sum is a usize: it
\* panics on overflow in a build with overflow checks and wraps otherwise;
\* the slice panics when start > end or end > len.
idx_slice(idx, idx_offset, count, checks) ==
    LET sum == idx_offset + count
        end == sum % USIZE_MOD
    IN  IF checks /\ sum >= USIZE_MOD
        THEN [panic |-> "IndexRangeOutOfBounds", slice |-> <<>>]
        ELSE IF idx_offset > end
        THEN [panic |-> "IndexRangeOutOfBounds", slice |-> <<>>]
        ELSE IF end > Len(idx)
        THEN [panic |-> "IndexRangeOutOfBounds", slice |-> <<>>]
        ELSE [panic |-> "none", slice |-> SubSeq(idx, idx_offset + 1, end)]

\* skia_safe::Vertices::new_copy(Triangles, pos, uv, color, indices)
new_copy(arrays, indices) ==
    [mode |-> "Triangles", pos |-> arrays.pos, uv |-> arrays.uv,
     color |-> arrays.color, indices |-> indices]

\* a plausible slip: a missing texture falls back to the font atlas
elements_fallback(imgs, arrays, idx, c, cmd, checks) ==
    LET p == IF cmd.texture_id \in DOMAIN imgs THEN imgs[cmd.texture_id] ELSE FontPaint
        s == idx_slice(idx, cmd.idx_offset, cmd.count, checks)
    IN  IF s.panic /= "none" THEN [canvas |-> c, panic |-> s.panic]
        ELSE [canvas |-> canvas_draw_vertices(canvas_clip_rect(c, cmd.clip_rect),
                                              new_copy(arrays, s.slice), p),
              panic |-> "none"]

\* lines 139-157: the Elements arm; c is the canvas the guard has saved
elements(imgs, arrays, idx, c, cmd, checks) ==
    LET p == lookup(imgs, cmd.texture_id)
        s == idx_slice(idx, cmd.idx_offset, cmd.count, checks)
    IN  IF p.panic /= "none" THEN [canvas |-> c, panic |-> p.panic]
        ELSE IF s.panic /= "none" THEN [canvas |-> c, panic |-> s.panic]
        ELSE [canvas |-> canvas_draw_vertices(canvas_clip_rect(c, cmd.clip_rect),
                                              new_copy(arrays, s.slice), p.paint),
              panic |-> "none"]

\* a plausible slip: the unimplemented commands do nothing
match_cmd_noop(imgs, arrays, idx, c, cmd, checks) ==
    IF cmd.kind = "Elements" THEN elements(imgs, arrays, idx, c, cmd, checks)
    ELSE [canvas |-> c, panic |-> "none"]

\* lines 130-158: match cmd
match_cmd(imgs, arrays, idx, c, cmd, checks) ==
    CASE cmd.kind = "RawCallback" -> [canvas |-> c, panic |-> "UnsupportedCommand"]
      [] cmd.kind = "ResetRenderState" -> [canvas |-> c, panic |-> "UnsupportedCommand"]
      [] cmd.kind = "Elements" -> elements(imgs, arrays, idx, c, cmd, checks)

\* lines 129-158: one iteration of the command loop.  The guard saves the
\* canvas and restores it when it is dropped, at the end of the iteration
\* or while a panic unwinds.
draw_cmd(imgs, arrays, idx, c, cmd, checks) ==
    LET r == match_cmd(imgs, arrays, idx, canvas_save(c), cmd, checks)
    IN  [canvas |-> canvas_restore(r.canvas), panic |-> r.panic]

RECURSIVE draw_cmds_skip(_, _, _, _, _, _)
\* a plausible slip: a failing command is skipped and the loop goes on
draw_cmds_skip(imgs, arrays, idx, c, cmds, checks) ==
    IF cmds = <<>> THEN [canvas |-> c, panic |-> "none"]
    ELSE LET r == draw_cmd(imgs, arrays, idx, c, Head(cmds), checks)
             t == draw_cmds_skip(imgs, arrays, idx, r.canvas, Tail(cmds), checks)
         IN  IF r.panic /= "none" THEN [canvas |-> t.canvas, panic |-> r.panic]
             ELSE t

RECURSIVE draw_cmds(_, _, _, _, _, _)
\* line 128: for cmd in draw_list.commands(); a panic ends the loop
draw_cmds(imgs, arrays, idx, c, cmds, checks) ==
    IF cmds = <<>> THEN [canvas |-> c, panic |-> "none"]
    ELSE LET r == draw_cmd(imgs, arrays, idx, c, Head(cmds), checks)
         IN  IF r.panic /= "none" THEN r
             ELSE draw_cmds(imgs, arrays, idx, r.canvas, Tail(cmds), checks)

\* lines 96-159: one draw list
draw_list(imgs, c, list, checks) ==
    draw_cmds(imgs, vertex_arrays(list.vtx_buffer), index_array(list.idx_buffer),
              c, list.commands, checks)

RECURSIVE draw_lists(_, _, _, _)
\* line 95: for draw_list in data.draw_lists(); a panic ends the loop
draw_lists(imgs, c, lists, checks) ==
    IF lists = <<>> THEN [canvas |-> c, panic |-> "none"]
    ELSE LET r == draw_list(imgs, c, Head(lists), checks)
         IN  IF r.panic /= "none" THEN r
             ELSE draw_lists(imgs, r.canvas, Tail(lists), checks)

\* Renderer::render_imgui as a function of the registry, the canvas and the
\* frame.  The final canvas.restore() is an ordinary call: a panic skips it.
render(imgs, c, frame, checks) ==
    LET c0 == canvas_set_matrix(canvas_save(c), "identity")
        r == draw_lists(imgs, c0, frame, checks)
    IN  IF r.panic /= "none" THEN r
        ELSE [canvas |-> canvas_restore(r.canvas), panic |-> "none"]

\* Renderer::render_imgui called with canvas c and DrawData frame
render_imgui(c, frame) ==
    LET r == render(images, c, frame, overflow_checks)
    IN  /\ entry' = c
        /\ data' = frame
        /\ canvas' = r.canvas
        /\ outcome' = IF r.panic = "none" THEN "ok" ELSE r.panic
        /\ last' = [op |-> "render", id |-> 0, hit |-> FALSE]
        /\ UNCHANGED <<images, img_idx, overflow_checks, issued, released>>

(***************************************************************************)
(* Inputs                                                                  *)
(***************************************************************************)
\* an imgui DrawVert
Vert(px, py, u, v, col) == [pos |-> <<px, py>>, uv |-> <<u, v>>, col |-> col]

\* two draw lists' worth of geometry: three vertices with three indices,
\* and two vertices with two indices
VtxA == <<Vert(0, 0, 0, 0, <<10, 20, 30, 40>>),
          Vert(4, 0, 1, 0, <<11, 21, 31, 41>>),
          Vert(0, 4, 0, 1, <<12, 22, 32, 42>>)>>
IdxA == <<2, 0, 1>>
VtxB == <<Vert(1, 1, 0, 0, <<50, 60, 70, 80>>),
          Vert(3, 3, 1, 1, <<51, 61, 71, 81>>)>>
IdxB == <<1, 0>>
Geometries == {[vtx_buffer |-> VtxA, idx_buffer |-> IdxA],
               [vtx_buffer |-> VtxB, idx_buffer |-> IdxB]}

ClipRect == <<0, 0, 4, 4>>

\* (idx_offset, count): the whole of IdxA (past the end of IdxB), one element
\* in the middle, and a sum that wraps around usize
Ranges == {<<0, 3>>, <<1, 1>>, <<2, USIZE_MAX>>}

Elements(count, idx_offset, texture_id) ==
    [kind |-> "Elements", count |-> count, idx_offset |-> idx_offset,
     texture_id |-> texture_id, clip_rect |-> ClipRect]
Unsupported(kind) ==
    [kind |-> kind, count |-> 0, idx_offset |-> 0, texture_id |-> 0, clip_rect |-> ClipRect]

DrawCmds(texids) ==
    {Elements(r[2], r[1], t) : r \in Ranges, t \in texids}
        \cup {Unsupported("ResetRenderState"), Unsupported("RawCallback")}

SeqsUpTo(S, n) == UNION {[1 .. k -> S] : k \in 0 .. n}

DrawLists(texids, n) ==
    {[vtx_buffer |-> g.vtx_buffer, idx_buffer |-> g.idx_buffer, commands |-> cs] :
        g \in Geometries, cs \in SeqsUpTo(DrawCmds(texids), n)}

\* frames of at most two draw lists (of different geometry) and at most
\* MaxCmds commands in all
DrawDatas ==
    {<<>>}
    \cup {<<l>> : l \in DrawLists(TexIds, MaxCmds)}
    \cup UNION {{<<l1, l2>> : l2 \in {l \in DrawLists(TexIds, MaxCmds - Len(l1.commands)) :
                                          l.idx_buffer /= l1.idx_buffer}} :
                    l1 \in DrawLists(TexIds, MaxCmds)}

\* a canvas with d saves of the caller on it
CallerCanvas(d) ==
    [stack |-> [i \in 1 .. d |-> [matrix |-> "caller", clip |-> <<>>]],
     cur |-> [matrix |-> "caller", clip |-> <<>>],
     draws |-> <<>>]
Canvases == {CallerCanvas(d) : d \in EntryDepths}

(***************************************************************************)
(* Specifications                                                          *)
(***************************************************************************)
Register == \E p \in Paints : register_image(p)
Update == \E h \in Handles, p \in Paints : update_image(h, p)
Release == \E h \in Handles : release_image(h)

Next == Register \/ Update \/ Release

\* the registry over a session: any interleaving of register_image,
\* update_image and release_image after new()
Spec == Init /\ [][Next]_vars

\* registries over TexIds: the font atlas at 0 unless released, any paint or
\* none at the other ids
Registries ==
    {m \in UNION {[S -> Paints \cup {FontPaint}] : S \in SUBSET TexIds} :
        \A h \in DOMAIN m : (m[h] = FontPaint) <=> (h = 0)}

\* one call of render_imgui on any registry, canvas and frame
InitFrame ==
    /\ images \in Registries
    /\ img_idx = Cardinality(TexIds)
    /\ overflow_checks \in BOOLEAN
    /\ last = [op |-> "none", id |-> 0, hit |-> FALSE]
    /\ issued = [i \in 1 .. Cardinality(TexIds) - 1 |-> i]
    /\ released = TexIds \ DOMAIN images
    /\ entry \in Canvases
    /\ canvas = entry
    /\ data \in DrawDatas
    /\ outcome = "pending"

RenderFrame == outcome = "pending" /\ render_imgui(entry, data)

NextFrame == RenderFrame

SpecFrame == InitFrame /\ [][NextFrame]_vars

(***************************************************************************)
(* Properties of the registry, checked under Spec                          *)
(***************************************************************************)
IssuedSet == {issued[i] : i \in 1 .. Len(issued)}

\* C1: every register_image returns a handle strictly greater than every
\* handle an earlier register_image returned (and than the font atlas's
\* handle 0); the first one after new() returns 1; a handle that was handed
\* out and then released is never returned by a later register_image.
C1_RegisterHandlesIncrease ==
    [][ issued' /= issued =>
            LET h == issued'[Len(issued')]
            IN  /\ Len(issued') = Len(issued) + 1
                /\ h > 0
                /\ \A i \in 1 .. Len(issued) : issued[i] < h
                /\ (issued = <<>> => h = 1)
                /\ h \notin released \cap (IssuedSet \cup {0}) ]_vars

\* C1 witness: a second register_image has just returned, after the handle
\* of the first one was released
C1_Witness ==
    /\ last.op = "register"
    /\ Len(issued) >= 2
    /\ issued[1] \in released

\* C2: update_image on a texture id that is not in the registry leaves the
\* registry's set of handles and the counter as they were (the call fails
\* with UnknownHandle and inserts nothing).
C2_UpdateUnknownInsertsNothing ==
    [][ (last'.op = "update" /\ last'.id \notin DOMAIN images) =>
            /\ DOMAIN images' = DOMAIN images
            /\ img_idx' = img_idx ]_vars

\* C9: after release_image(h) the lookup of h fails with UnknownHandle, and
\* goes on failing until a register_image that returns h or an
\* update_image(h) puts an entry at h; release_image of a handle that is not
\* in the registry changes neither the entries nor the counter.
C9_ReleaseThenLookupFails ==
    [][ /\ last'.op = "release" =>
              /\ lookup(images', last'.id).panic = "UnknownHandle"
              /\ img_idx' = img_idx
              /\ (last'.id \notin DOMAIN images => images' = images)
        /\ \A h \in Handles :
              (lookup(images, h).panic = "UnknownHandle"
                    /\ lookup(images', h).panic = "none")
                 => last'.op \in {"register", "update"} /\ last'.id = h ]_vars

\* C9 witness: release_image has just been called on a handle that an
\* earlier release_image had already removed; its lookup fails
C9_Witness ==
    /\ last.op = "release"
    /\ last.id \in IssuedSet
    /\ ~last.hit
    /\ lookup(images, last.id).panic = "UnknownHandle"

\* C10: every handle in the registry is strictly below the counter, so that
\* register_image always inserts under a handle that is absent.
C10_HandlesBelowCounter == \A h \in DOMAIN images : h < img_idx

(***************************************************************************)
(* Properties of render_imgui, checked under SpecFrame                     *)
(***************************************************************************)
RECURSIVE FlatCmds(_)
\* the commands of a frame in draw-list order and then command order, each
\* with the draw list it belongs to
FlatCmds(frame) ==
    IF frame = <<>> THEN <<>>
    ELSE [i \in 1 .. Len(Head(frame).commands) |->
              [list |-> Head(frame), cmd |-> Head(frame).commands[i]]]
         \o FlatCmds(Tail(frame))

Flat == FlatCmds(data)

\* the texture of an Elements command is in the registry
TextureKnown(e) == e.cmd.texture_id \in DOMAIN images

\* the index range of an Elements command lies in its list's index buffer
RangeInBounds(e) == e.cmd.idx_offset + e.cmd.count <= Len(e.list.idx_buffer)

\* a command render_imgui can translate
Translatable(e) == e.cmd.kind = "Elements" /\ TextureKnown(e) /\ RangeInBounds(e)

\* the position of the first command that cannot be translated: the command
\* translation fails at (Len(Flat) + 1 when there is none)
FirstBad ==
    CHOOSE k \in 1 .. Len(Flat) + 1 :
        /\ \A j \in 1 .. k - 1 : Translatable(Flat[j])
        /\ k <= Len(Flat) => ~Translatable(Flat[k])

Returned == outcome \notin {"none", "pending"}
Failed == Returned /\ outcome /= "ok"

\* C3: if translation of a frame fails, no vertex draw call has been issued
\* on the canvas for that frame, not even for the Elements commands before
\* the failing one.
C3_NoDrawWhenFrameFails == Failed => canvas.draws = <<>>

\* C3 (amended): if translation of a frame fails, it fails at the first
\* command that cannot be translated; the draw calls of the commands before
\* it have been issued, and no draw call has been issued for the failing
\* command or for any command after it.
C3_DrawsStopAtFailingCommand ==
    Failed => /\ FirstBad <= Len(Flat)
              /\ Len(canvas.draws) = FirstBad - 1

\* C3 witness: a frame failed after a draw call had been issued
C3_Witness ==
    /\ Failed
    /\ canvas.draws /= <<>>

\* C4: when render_imgui hands control back, having completed the frame or
\* failed, the canvas's save stack is as deep as it was at entry.
C4_SaveDepthPreserved == Returned => Len(canvas.stack) = Len(entry.stack)

\* C5: when translation comes to an Elements command whose texture is not
\* in the registry, it fails with UnknownHandle and no draw call is issued
\* for that command (nor with another paint, nor for a later command).
C5_UnknownTextureFails ==
    (Returned /\ FirstBad <= Len(Flat)
        /\ Flat[FirstBad].cmd.kind = "Elements" /\ ~TextureKnown(Flat[FirstBad]))
    => /\ outcome = "UnknownHandle"
       /\ Len(canvas.draws) = FirstBad - 1

\* C5 witness: the frame's second command names a texture that is absent,
\* its index range being in bounds
C5_Witness ==
    /\ Returned /\ FirstBad = 2 /\ Len(Flat) >= 2
    /\ Flat[2].cmd.kind = "Elements" /\ ~TextureKnown(Flat[2])
    /\ RangeInBounds(Flat[2])

\* C6: when translation comes to an Elements command whose idx_offset +
\* count exceeds the length of the index buffer, it fails with
\* IndexRangeOutOfBounds and issues no draw call for that command.
C6_RangeOutOfBoundsFails ==
    (Returned /\ FirstBad <= Len(Flat)
        /\ Flat[FirstBad].cmd.kind = "Elements" /\ ~RangeInBounds(Flat[FirstBad]))
    => /\ outcome = "IndexRangeOutOfBounds"
       /\ Len(canvas.draws) = FirstBad - 1

\* C6 (amended): when translation comes to an Elements command whose texture
\* is in the registry and whose idx_offset + count exceeds the length of the
\* index buffer, it fails with IndexRangeOutOfBounds and issues no draw call
\* for that command, also when the sum wraps around usize.
C6_RangeOutOfBoundsFailsAfterLookup ==
    (Returned /\ FirstBad <= Len(Flat)
        /\ Flat[FirstBad].cmd.kind = "Elements" /\ TextureKnown(Flat[FirstBad])
        /\ ~RangeInBounds(Flat[FirstBad]))
    => /\ outcome = "IndexRangeOutOfBounds"
       /\ Len(canvas.draws) = FirstBad - 1

\* C6 witness: in a build without overflow checks, the frame's second
\* command has a known texture and a range whose end wraps around usize
C6_Witness ==
    /\ Returned /\ ~overflow_checks /\ FirstBad = 2 /\ Len(Flat) >= 2
    /\ Flat[2].cmd.kind = "Elements" /\ TextureKnown(Flat[2])
    /\ Flat[2].cmd.idx_offset + Flat[2].cmd.count >= USIZE_MOD

\* C7: when translation comes to a ResetRenderState or a RawCallback
\* command, it fails with UnsupportedCommand; no draw call is issued for it
\* or for any later command of the frame.
C7_UnsupportedCommandFails ==
    (Returned /\ FirstBad <= Len(Flat)
        /\ Flat[FirstBad].cmd.kind \in {"ResetRenderState", "RawCallback"})
    => /\ outcome = "UnsupportedCommand"
       /\ Len(canvas.draws) = FirstBad - 1

\* C7 witness: a ResetRenderState command came first and a translatable
\* Elements command follows it
C7_Witness ==
    /\ Returned /\ FirstBad = 1 /\ Len(Flat) >= 2
    /\ Flat[1].cmd.kind = "ResetRenderState"
    /\ Translatable(Flat[2])

\* the draw call render_imgui owes a translatable command: the index range
\* in original order, the list's whole vertex arrays, the registered paint
DrawMatches(d, e) ==
    LET vtx == e.list.vtx_buffer
        idx == e.list.idx_buffer
        off == e.cmd.idx_offset
        v == d.vertices
    IN  /\ v.mode = "Triangles"
        /\ d.blend = "Modulate"
        /\ d.paint = images[e.cmd.texture_id]
        /\ Len(v.indices) = e.cmd.count
        /\ \A i \in 1 .. e.cmd.count : v.indices[i] = idx[off + i]
        /\ Len(v.pos) = Len(vtx) /\ Len(v.uv) = Len(vtx) /\ Len(v.color) = Len(vtx)
        /\ \A i \in 1 .. Len(vtx) :
              /\ v.pos[i].x = vtx[i].pos[1] /\ v.pos[i].y = vtx[i].pos[2]
              /\ v.uv[i].x = vtx[i].uv[1] /\ v.uv[i].y = vtx[i].uv[2]
              /\ v.color[i].r = vtx[i].col[1] /\ v.color[i].g = vtx[i].col[2]
              /\ v.color[i].b = vtx[i].col[3] /\ v.color[i].a = vtx[i].col[4]

\* C8: for a frame whose commands are all Elements commands with known
\* textures and index ranges in bounds, translation succeeds and issues
\* exactly one draw call per command, in draw-list order and then command
\* order, each with the command's index range in original order, the full
\* vertex arrays of its list and the paint registered at its texture.
C8_OneDrawPerCommandInOrder ==
    (Returned /\ FirstBad = Len(Flat) + 1)
    => /\ outcome = "ok"
       /\ Len(canvas.draws) = Len(Flat)
       /\ \A k \in 1 .. Len(Flat) : DrawMatches(canvas.draws[k], Flat[k])

\* C8 witness: a frame of two draw lists was translated; its first command
\* draws the whole index buffer of its list, its second part of another
C8_Witness ==
    /\ Returned /\ Len(data) = 2 /\ Len(Flat) = 2 /\ FirstBad = 3
    /\ Flat[1].cmd.idx_offset = 0
    /\ Flat[1].cmd.count = Len(Flat[1].list.idx_buffer)
    /\ Flat[2].cmd.idx_offset = 1
    /\ Flat[1].list /= Flat[2].list
    /\ canvas.draws[1].paint /= canvas.draws[2].paint

====
